---------------------------- MODULE Spec2Model ----------------------------
(***************************************************************************)
(* A model of src/app.py: the trait deriver (derive_traits), the upstream  *)
(* client (call_gemini_text), the request parser (parse_plan_request), the *)
(* response extractor (extract_first_json_block) and the request handler  *)
(* (generate_plan).                                                        *)
(*                                                                         *)
(* Python strings on which the code does character work are sequences of  *)
(* one-character strings; strings the code only passes along (messages,   *)
(* raw upstream bodies, trait labels) are TLA+ strings.                    *)
(***************************************************************************)
EXTENDS Integers, Sequences, FiniteSets, TLC

VARIABLES
    dt_genomics,   \* derive_traits: the argument `genomics`
    dt_i,          \* derive_traits: number of variants the for loop has consumed
    dt_traits,     \* derive_traits: the local dict `traits`
    dt_pc,         \* derive_traits: "loop" | "returned"
    ex_text,       \* extract_first_json_block: the argument `text`
    ex_pc,         \* extract_first_json_block: "call" | "returned" | "raised"
    ex_result,     \* extract_first_json_block: the string returned
    ex_exc,        \* extract_first_json_block: the exception that left it, or "none"
    api_key,       \* GEMINI_API_KEY, read once when the module is loaded
    pc,            \* generate_plan: "idle" | "awaiting" (requests.post is blocking) | "responded"
    payload,       \* generate_plan: the JSON body of the request being served
    posts,         \* generate_plan: requests.post calls made for this request
    reply,         \* what requests.post met: a transport failure or an HTTP response
    outcome,       \* call_gemini_text's outcome within this request
    resp           \* generate_plan: the HTTP response sent

traitVars == <<dt_genomics, dt_i, dt_traits, dt_pc>>
extractVars == <<ex_text, ex_pc, ex_result, ex_exc>>
handlerVars == <<api_key, pc, payload, posts, reply, outcome, resp>>
vars == <<traitVars, extractVars, handlerVars>>

---------------------------------------------------------------------------
(* Bounds of the model.                                                    *)

\* longest variant list handed to derive_traits
MaxVariants == 3

\* most pieces (see TextPieces) a text handed to extract_first_json_block is made of
MaxPieces == 5

\* longest genomics list in a request body
MaxGenomics == 2

\* most required fields of a request body that are absent or of a bad value
MaxFaults == 2

---------------------------------------------------------------------------
(* str methods used by the code.                                           *)

LowerLetters ==
    <<"a","b","c","d","e","f","g","h","i","j","k","l","m",
      "n","o","p","q","r","s","t","u","v","w","x","y","z">>

UpperLetters ==
    <<"A","B","C","D","E","F","G","H","I","J","K","L","M",
      "N","O","P","Q","R","S","T","U","V","W","X","Y","Z">>

\* str.upper() on one character
UpperChar(c) ==
    IF \E i \in DOMAIN LowerLetters : LowerLetters[i] = c
    THEN UpperLetters[CHOOSE i \in DOMAIN LowerLetters : LowerLetters[i] = c]
    ELSE c

\* str.lower() on one character
LowerChar(c) ==
    IF \E i \in DOMAIN UpperLetters : UpperLetters[i] = c
    THEN LowerLetters[CHOOSE i \in DOMAIN UpperLetters : UpperLetters[i] = c]
    ELSE c

\* s.upper()
upper(s) == [i \in 1..Len(s) |-> UpperChar(s[i])]

\* s.lower()
lower(s) == [i \in 1..Len(s) |-> LowerChar(s[i])]

\* characters str.strip() removes (of these the model's texts hold " " and "\n")
IsSpace(c) == c \in {" ", "\n", "\t", "\r"}

\* s.lstrip()
RECURSIVE lstrip(_)
lstrip(s) ==
    IF s # <<>> /\ IsSpace(Head(s)) THEN lstrip(Tail(s)) ELSE s

\* s.rstrip()
RECURSIVE rstrip(_)
rstrip(s) ==
    IF s # <<>> /\ IsSpace(s[Len(s)]) THEN rstrip(SubSeq(s, 1, Len(s) - 1)) ELSE s

\* s.strip()
strip(s) == rstrip(lstrip(s))

\* s.replace(c, "")
remove_char(s, c) == SelectSeq(s, LAMBDA x : x # c)

\* sub in s
contains(s, sub) ==
    \E i \in 1..(Len(s) - Len(sub) + 1) : SubSeq(s, i, i + Len(sub) - 1) = sub

---------------------------------------------------------------------------
(* Trait deriver.                                                          *)

TraitKeys ==
    {"fat_sensitivity", "carb_tolerance", "methylation_support",
     "lactose_tolerance", "caffeine_sensitivity"}

\* the dict literal derive_traits starts from
DefaultTraits ==
    [k \in TraitKeys |->
        CASE k = "fat_sensitivity"      -> "neutral"
          [] k = "carb_tolerance"       -> "moderate"
          [] k = "methylation_support"  -> "standard"
          [] k = "lactose_tolerance"    -> "unknown"
          [] k = "caffeine_sensitivity" -> "unknown"]

\* d[k] = v on a dict: the key is added when it is not there yet
DictSet(d, k, v) == [x \in (DOMAIN d) \cup {k} |-> IF x = k THEN v ELSE d[x]]

\* d.get(k, default)
DictGet(d, k, default) == IF k \in DOMAIN d THEN d[k] ELSE default

\* the literals the rules compare with
G_APOA2  == <<"A","P","O","A","2">>
G_TCF7L2 == <<"T","C","F","7","L","2">>
G_FTO    == <<"F","T","O">>
G_MTHFR  == <<"M","T","H","F","R">>
G_LCT    == <<"L","C","T">>
G_CYP1A2 == <<"C","Y","P","1","A","2">>
RS_5082    == <<"r","s","5","0","8","2">>
RS_1801133 == <<"r","s","1","8","0","1","1","3","3">>
GT_AA == <<"A","A">>
GT_TT == <<"T","T">>
GT_CT == <<"C","T">>

\* g = v.gene.upper().strip()
NormGene(v) == strip(upper(v.gene))

\* rs = v.rsid.lower().strip()
NormRsid(v) == strip(lower(v.rsid))

\* gt = v.genotype.upper().replace("/", "").strip()
NormGenotype(v) == strip(remove_char(upper(v.genotype), "/"))

\* the APOA2 rule without its rsid test
RuleAPOA2_any_rsid(t, v) ==
    IF NormGene(v) = G_APOA2 /\ NormGenotype(v) = GT_AA
    THEN DictSet(t, "fat_sensitivity", "higher")
    ELSE t

\* if g == "APOA2" and rs == "rs5082" and gt == "AA": fat_sensitivity = "higher"
RuleAPOA2(t, v) ==
    IF NormGene(v) = G_APOA2 /\ NormRsid(v) = RS_5082 /\ NormGenotype(v) = GT_AA
    THEN DictSet(t, "fat_sensitivity", "higher")
    ELSE t

\* if g == "TCF7L2": carb_tolerance = "lower"
RuleTCF7L2(t, v) ==
    IF NormGene(v) = G_TCF7L2 THEN DictSet(t, "carb_tolerance", "lower") ELSE t

\* the FTO rule setting "moderate" whatever the trait holds
RuleFTO_reset(t, v) ==
    IF NormGene(v) = G_FTO THEN DictSet(t, "carb_tolerance", "moderate") ELSE t

\* if g == "FTO": carb_tolerance = traits.get("carb_tolerance", "moderate") or "moderate"
RuleFTO(t, v) ==
    IF NormGene(v) = G_FTO
    THEN LET cur == DictGet(t, "carb_tolerance", "moderate")
         IN  DictSet(t, "carb_tolerance", IF cur = "" THEN "moderate" ELSE cur)
    ELSE t

\* if g == "MTHFR" and rs == "rs1801133" and any(a in gt for a in ["TT", "CT"])
RuleMTHFR(t, v) ==
    IF /\ NormGene(v) = G_MTHFR
       /\ NormRsid(v) = RS_1801133
       /\ \E a \in {GT_TT, GT_CT} : contains(NormGenotype(v), a)
    THEN DictSet(t, "methylation_support", "elevated")
    ELSE t

\* the LCT rule writing a misspelt key
RuleLCT_misspelt(t, v) ==
    IF NormGene(v) = G_LCT THEN DictSet(t, "lactose_tolerence", "lower") ELSE t

\* if g == "LCT": lactose_tolerance = "lower"
RuleLCT(t, v) ==
    IF NormGene(v) = G_LCT THEN DictSet(t, "lactose_tolerance", "lower") ELSE t

\* if g == "CYP1A2": caffeine_sensitivity = "higher"
RuleCYP1A2(t, v) ==
    IF NormGene(v) = G_CYP1A2 THEN DictSet(t, "caffeine_sensitivity", "higher") ELSE t

\* one iteration of the for loop: the six ifs in their order
LoopBody(t, v) ==
    RuleCYP1A2(RuleLCT(RuleMTHFR(RuleFTO(RuleTCF7L2(RuleAPOA2(t, v), v), v), v), v), v)

\* the loop over the first n variants, from the default dict
RECURSIVE TraitsAfter(_, _)
TraitsAfter(genomics, n) ==
    IF n = 0 THEN DefaultTraits
    ELSE LoopBody(TraitsAfter(genomics, n - 1), genomics[n])

\* derive_traits(genomics), for variants whose three fields are strings
derive_traits(genomics) == TraitsAfter(genomics, Len(genomics))

---------------------------------------------------------------------------
(* Variants the trait deriver is run on.                                   *)

Variant(g, rs, gt) == [gene |-> g, rsid |-> rs, genotype |-> gt]

RS_OTHER == <<"r","s","9">>

SampleVariants ==
    { Variant(<<"a","p","o","a","2">>, <<"R","S","5","0","8","2">>, <<"a","/","a">>),
      Variant(<<" ","A","P","O","A","2">>, RS_5082, <<"A","A"," ">>),
      Variant(G_APOA2, RS_5082, <<"A","C">>),
      Variant(G_APOA2, RS_OTHER, GT_AA),
      Variant(G_TCF7L2, RS_OTHER, GT_CT),
      Variant(<<"f","t","o">>, RS_OTHER, GT_TT),
      Variant(G_MTHFR, RS_1801133, <<"C","/","T">>),
      Variant(G_MTHFR, RS_1801133, <<"G","G">>),
      Variant(<<"m","t","h","f","r","\n">>, <<"R","s","1","8","0","1","1","3","3">>, <<"t","t">>),
      Variant(G_LCT, RS_OTHER, <<"G","G">>),
      Variant(G_CYP1A2, RS_OTHER, GT_AA),
      Variant(<<"X","Y","Z">>, RS_5082, GT_AA) }

\* sequences over S of length at most n
SeqsUpTo(S, n) == UNION { [1..k -> S] : k \in 0..n }

---------------------------------------------------------------------------
(* json.loads, as far as deciding whether a text is one JSON document.     *)

\* s[i], or "" past either end
CharAt(s, i) == IF i \in 1..Len(s) THEN s[i] ELSE ""

\* whether lit occurs in s at position i
MatchAt(s, i, lit) == i >= 1 /\ i + Len(lit) - 1 <= Len(s) /\ SubSeq(s, i, i + Len(lit) - 1) = lit

JsonWs == {" ", "\n", "\t", "\r"}
JsonDigits == {"0","1","2","3","4","5","6","7","8","9"}
JsonEscapes == {"\"", "\\", "/", "b", "f", "n", "r", "t"}
JsonHex == JsonDigits \cup {"a","b","c","d","e","f","A","B","C","D","E","F"}

\* the literals the scanner accepts
LitTrue  == <<"t","r","u","e">>
LitFalse == <<"f","a","l","s","e">>
LitNull  == <<"n","u","l","l">>
LitNaN   == <<"N","a","N">>
LitInf   == <<"I","n","f","i","n","i","t","y">>

\* WHITESPACE.match(s, i).end()
RECURSIVE SkipWs(_, _)
SkipWs(s, i) == IF CharAt(s, i) \in JsonWs THEN SkipWs(s, i + 1) ELSE i

RECURSIVE SkipDigits(_, _)
SkipDigits(s, i) == IF CharAt(s, i) \in JsonDigits THEN SkipDigits(s, i + 1) ELSE i

\* NUMBER_RE: (-?(?:0|[1-9]\d*))(\.\d+)?([eE][-+]?\d+)? at i: the position after
\* the match, 0 when there is none
ScanNumber(s, i) ==
    LET j0 == IF CharAt(s, i) = "-" THEN i + 1 ELSE i
        j1 == IF CharAt(s, j0) = "0" THEN j0 + 1 ELSE SkipDigits(s, j0)
        j2 == IF CharAt(s, j1) = "." /\ CharAt(s, j1 + 1) \in JsonDigits
              THEN SkipDigits(s, j1 + 1) ELSE j1
        k  == IF CharAt(s, j2 + 1) \in {"-", "+"} THEN j2 + 2 ELSE j2 + 1
        j3 == IF CharAt(s, j2) \in {"e", "E"} /\ CharAt(s, k) \in JsonDigits
              THEN SkipDigits(s, k) ELSE j2
    IN  IF CharAt(s, j0) \in JsonDigits THEN j3 ELSE 0

\* scanstring with s[i] the first character after the opening quote: the
\* position after the closing quote, 0 when the string is not terminated or
\* holds a control character or a bad escape
RECURSIVE ScanString(_, _)
ScanString(s, i) ==
    LET c == CharAt(s, i)
    IN  CASE c = ""   -> 0
          [] c = "\"" -> i + 1
          [] c \in {"\n", "\t", "\r"} -> 0
          [] c = "\\" ->
                IF CharAt(s, i + 1) \in JsonEscapes THEN ScanString(s, i + 2)
                ELSE IF /\ CharAt(s, i + 1) = "u"
                        /\ \A d \in 2..5 : CharAt(s, i + d) \in JsonHex
                     THEN ScanString(s, i + 6)
                     ELSE 0
          [] OTHER -> ScanString(s, i + 1)

RECURSIVE ScanValue(_, _), ScanMembers(_, _), ScanElements(_, _)

\* scan_once(s, i): the position after the value that starts at i, 0 when
\* there is none
ScanValue(s, i) ==
    LET c == CharAt(s, i)
    IN  CASE c = "\"" -> ScanString(s, i + 1)
          [] c = "{"  ->
                LET j == SkipWs(s, i + 1)
                IN  IF CharAt(s, j) = "}" THEN j + 1 ELSE ScanMembers(s, j)
          [] c = "["  ->
                LET j == SkipWs(s, i + 1)
                IN  IF CharAt(s, j) = "]" THEN j + 1 ELSE ScanElements(s, j)
          [] MatchAt(s, i, LitNull)  -> i + Len(LitNull)
          [] MatchAt(s, i, LitTrue)  -> i + Len(LitTrue)
          [] MatchAt(s, i, LitFalse) -> i + Len(LitFalse)
          [] MatchAt(s, i, LitNaN)   -> i + Len(LitNaN)
          [] MatchAt(s, i, LitInf)   -> i + Len(LitInf)
          [] c = "-" /\ MatchAt(s, i + 1, LitInf) -> i + 1 + Len(LitInf)
          [] OTHER -> ScanNumber(s, i)

\* JSONObject from a key: "key" : value, then , or }
ScanMembers(s, i) ==
    IF CharAt(s, i) # "\"" THEN 0
    ELSE LET k1 == ScanString(s, i + 1)
             k2 == SkipWs(s, k1)
             k3 == SkipWs(s, k2 + 1)
             k4 == ScanValue(s, k3)
             k5 == SkipWs(s, k4)
         IN  IF k1 = 0 \/ CharAt(s, k2) # ":" THEN 0
             ELSE IF k4 = 0 THEN 0
             ELSE IF CharAt(s, k5) = "}" THEN k5 + 1
             ELSE IF CharAt(s, k5) = "," THEN ScanMembers(s, SkipWs(s, k5 + 1))
             ELSE 0

\* JSONArray from an element: value, then , or ]
ScanElements(s, i) ==
    LET k1 == ScanValue(s, i)
        k2 == SkipWs(s, k1)
    IN  IF k1 = 0 THEN 0
        ELSE IF CharAt(s, k2) = "]" THEN k2 + 1
        ELSE IF CharAt(s, k2) = "," THEN ScanElements(s, SkipWs(s, k2 + 1))
        ELSE 0

\* json.loads(s) returns: one value, white space around it, nothing else
JsonParses(s) ==
    LET e == ScanValue(s, SkipWs(s, 1))
    IN  e # 0 /\ SkipWs(s, e) = Len(s) + 1

\* json.loads(s): the exception it raises, "none" when it returns
json_loads(s) == IF JsonParses(s) THEN "none" ELSE "JSONDecodeError"

---------------------------------------------------------------------------
(* Response extractor.                                                     *)

\* s.find(c): 0-based, -1 when c is not in s
find(s, c) ==
    IF \E i \in 1..Len(s) : s[i] = c
    THEN (CHOOSE i \in 1..Len(s) : s[i] = c /\ \A j \in 1..(i - 1) : s[j] # c) - 1
    ELSE -1

\* the first occurrence taken for the last
rfind_first(s, c) == find(s, c)

\* s.rfind(c): 0-based, -1 when c is not in s
rfind(s, c) ==
    IF \E i \in 1..Len(s) : s[i] = c
    THEN (CHOOSE i \in 1..Len(s) : s[i] = c /\ \A j \in (i + 1)..Len(s) : s[j] # c) - 1
    ELSE -1

\* s.startswith(c), s.endswith(c) for a one-character c
startswith(s, c) == s # <<>> /\ s[1] = c
endswith(s, c) == s # <<>> /\ s[Len(s)] = c

\* s[a:b] for 0 <= a <= b <= len(s)
Slice(s, a, b) == SubSeq(s, a + 1, b)

Returned(x) == [ret |-> x, exc |-> "none"]
Raised(e) == [ret |-> <<>>, exc |-> e]

\* json.loads(candidate) without the except clause
TryCandidate_uncaught(candidate, t) ==
    IF json_loads(candidate) = "none" THEN Returned(candidate) ELSE Raised(json_loads(candidate))

\* try: json.loads(candidate); return candidate / except Exception: return t
TryCandidate(candidate, t) ==
    IF json_loads(candidate) = "none" THEN Returned(candidate) ELSE Returned(t)

\* extract_first_json_block(text) for a string text: what it returns, or the
\* exception that leaves it
extract_first_json_block(text) ==
    LET t == strip(text)
        start == find(t, "{")
        end == rfind(t, "}")
    IN  IF startswith(t, "{") /\ endswith(t, "}") THEN Returned(t)
        ELSE IF start # -1 /\ end # -1 /\ end > start
             THEN TryCandidate(Slice(t, start, end + 1), t)
             ELSE Returned(t)

---------------------------------------------------------------------------
(* Texts the response extractor is run on: up to MaxPieces pieces, joined. *)

TextPieces ==
    { <<" ">>, <<"a">>, <<"{">>, <<"}">>, <<"\"","k","\"",":">>, <<"1">> }

RECURSIVE Join(_)
Join(pieces) == IF pieces = <<>> THEN <<>> ELSE Head(pieces) \o Join(Tail(pieces))

SampleTexts == { Join(ps) : ps \in SeqsUpTo(TextPieces, MaxPieces) }

---------------------------------------------------------------------------
(* JSON values, as request.get_json and Response.json hand them to the     *)
(* code.                                                                   *)

\* one shape for every value: the type t and, by type, the characters s of a
\* string, the number n, the items a of a list, the members o of an object
JStr(x) == [t |-> "str", s |-> x, n |-> 0, a |-> <<>>, o |-> <<>>]
JNum(x) == [t |-> "num", s |-> <<>>, n |-> x, a |-> <<>>, o |-> <<>>]
JNull   == [t |-> "null", s |-> <<>>, n |-> 0, a |-> <<>>, o |-> <<>>]
JArr(x) == [t |-> "arr", s |-> <<>>, n |-> 0, a |-> x, o |-> <<>>]
JObj(x) == [t |-> "obj", s |-> <<>>, n |-> 0, a |-> <<>>, o |-> x]
\* no value: the key is not in the object, the index not in the list
JAbsent == [t |-> "absent", s |-> <<>>, n |-> 0, a |-> <<>>, o |-> <<>>]

\* bool(x)
Truthy(x) ==
    CASE x.t = "str" -> x.s # <<>>
      [] x.t = "num" -> x.n # 0
      [] x.t = "arr" -> x.a # <<>>
      [] x.t = "obj" -> DOMAIN x.o # {}
      [] OTHER -> FALSE

\* x[k] for a string k: the value, JAbsent when x[k] raises
GetKey(x, k) ==
    IF x.t = "obj" /\ k \in DOMAIN x.o THEN x.o[k] ELSE JAbsent

\* x[0]: the value, JAbsent when x[0] raises
GetFirst(x) ==
    CASE x.t = "arr" /\ x.a # <<>> -> x.a[1]
      [] x.t = "str" /\ x.s # <<>> -> JStr(<<x.s[1]>>)
      [] OTHER -> JAbsent

---------------------------------------------------------------------------
(* Exceptions.                                                             *)

Exc(type, site, msg) == [type |-> type, site |-> site, msg |-> msg]
NoExc == Exc("none", "", "")

\* the classes an exception of the given class is an instance of
Bases(type) ==
    CASE type = "JSONDecodeError" -> {"JSONDecodeError", "ValueError", "Exception"}
      [] type = "KeyError"        -> {"KeyError", "LookupError", "Exception"}
      [] OTHER                    -> {type, "Exception"}

\* the first exception of a sequence of steps run in order, NoExc when none raises
FirstRaised(excs) ==
    IF \E i \in 1..Len(excs) : excs[i].type # "none"
    THEN excs[CHOOSE i \in 1..Len(excs) :
                 excs[i].type # "none" /\ \A j \in 1..(i - 1) : excs[j].type = "none"]
    ELSE NoExc

---------------------------------------------------------------------------
(* Request parser.                                                         *)

IsDigits(s) == s # <<>> /\ \A i \in 1..Len(s) : s[i] \in JsonDigits

Unsigned(s) == IF s # <<>> /\ s[1] \in {"+", "-"} THEN Tail(s) ELSE s

\* a string int() accepts: white space, a sign, digits
IsIntLiteral(s) == IsDigits(Unsigned(strip(s)))

\* a string float() accepts: white space, a sign, digits with one optional point
\* (exponents, inf and nan are not in the model's strings)
IsFloatLiteral(s) ==
    LET u == Unsigned(strip(s))
        d == remove_char(u, ".")
    IN  IsDigits(d) /\ Len(u) - Len(d) <= 1

\* int(payload[k])
int_of(p, k) ==
    LET x == p[k]
    IN  CASE x.t = "absent" -> Exc("KeyError", "parse_plan_request", k)
          [] x.t = "num" -> NoExc
          [] x.t = "str" ->
                IF IsIntLiteral(x.s) THEN NoExc
                ELSE Exc("ValueError", "parse_plan_request", "invalid literal for int() with base 10")
          [] OTHER -> Exc("TypeError", "parse_plan_request", "int() argument must be a string or a real number")

\* float(payload[k])
float_of(p, k) ==
    LET x == p[k]
    IN  CASE x.t = "absent" -> Exc("KeyError", "parse_plan_request", k)
          [] x.t = "num" -> NoExc
          [] x.t = "str" ->
                IF IsFloatLiteral(x.s) THEN NoExc
                ELSE Exc("ValueError", "parse_plan_request", "could not convert string to float")
          [] OTHER -> Exc("TypeError", "parse_plan_request", "float() argument must be a string or a real number")

\* str(payload[k]).strip()
str_of(p, k) ==
    IF p[k].t = "absent" THEN Exc("KeyError", "parse_plan_request", k) ELSE NoExc

VariantFields == {"gene", "rsid", "genotype"}

\* GenomicVariant(**g)
make_variant(g) ==
    IF \E f \in VariantFields : g[f].t = "absent"
    THEN Exc("TypeError", "parse_plan_request", "__init__() missing required positional argument")
    ELSE NoExc

\* s.split(",")
RECURSIVE split_commas(_)
split_commas(s) ==
    IF find(s, ",") = -1 THEN <<s>>
    ELSE <<Slice(s, 0, find(s, ","))>> \o split_commas(Slice(s, find(s, ",") + 1, Len(s)))

\* [c.strip() for c in constraints.split(",") if c.strip()] for a string,
\* the value itself otherwise; [] when the key is absent
parse_constraints(x) ==
    CASE x.t = "absent" -> JArr(<<>>)
      [] x.t = "str" ->
            LET parts == split_commas(x.s)
                kept == SelectSeq(parts, LAMBDA c : strip(c) # <<>>)
            IN  JArr([i \in 1..Len(kept) |-> JStr(strip(kept[i]))])
      [] OTHER -> x

\* parse_plan_request(payload): the exception it raises, NoExc when it returns
parse_plan_request_exc(p) ==
    FirstRaised(
        [i \in 1..Len(p.genomics) |-> make_variant(p.genomics[i])]
        \o << int_of(p, "age"), str_of(p, "sex"), float_of(p, "height_cm"),
              float_of(p, "weight_kg"), str_of(p, "activity_level"), str_of(p, "goal") >>)

\* parse_plan_request(payload), when it returns: the fields the code goes on to read
parse_plan_request(p) ==
    [constraints |-> parse_constraints(p.constraints), genomics |-> p.genomics]

---------------------------------------------------------------------------
(* What generate_plan does with a parsed request before the upstream call. *)

\* derive_traits(req.genomics): .upper() / .lower() of a field that is no string
derive_traits_exc(req) ==
    IF \E i \in 1..Len(req.genomics) : \E f \in VariantFields : req.genomics[i][f].t # "str"
    THEN Exc("AttributeError", "derive_traits", "object has no attribute 'upper'")
    ELSE NoExc

\* derive_traits(req.genomics) when it returns
request_traits(req) ==
    derive_traits([i \in 1..Len(req.genomics) |->
                      Variant(req.genomics[i].gene.s, req.genomics[i].rsid.s,
                              req.genomics[i].genotype.s)])

\* build_prompt: ", ".join(req.constraints) if req.constraints else "none"
build_prompt_exc(req) ==
    LET c == req.constraints
    IN  IF Truthy(c) /\ (c.t # "arr" \/ \E i \in 1..Len(c.a) : c.a[i].t # "str")
        THEN Exc("TypeError", "build_prompt", "sequence item: expected str instance")
        ELSE NoExc

\* call_gemini_text, up to requests.post: if not GEMINI_API_KEY: raise ValueError
key_check(key) ==
    IF key = "" THEN Exc("ValueError", "call_gemini_text", "GEMINI_API_KEY not configured")
    ELSE NoExc

\* generate_plan from get_json to requests.post: the exception that ends it
\* before the post, NoExc when the post is made
before_post(p, key) ==
    IF parse_plan_request_exc(p).type # "none" THEN parse_plan_request_exc(p)
    ELSE LET req == parse_plan_request(p)
         IN  IF derive_traits_exc(req).type # "none" THEN derive_traits_exc(req)
             ELSE FirstRaised(<<build_prompt_exc(req), key_check(key)>>)

---------------------------------------------------------------------------
(* Upstream replies: what requests.post meets.                             *)

NoReply == [kind |-> "none", status |-> 0, body |-> ""]
\* requests.post raises a RequestException (DNS, connection refused, timeout)
TransportFailure == [kind |-> "transport_failure", status |-> 0, body |-> ""]
\* an HTTP response: r.status_code and r.text
HttpReply(st, b) == [kind |-> "http", status |-> st, body |-> b]

\* texts a model answer holds
TextBlank  == <<" ", "\n", " ">>
TextProse  == <<"a", " ", "a">>
TextJson   == <<"{", "\"", "k", "\"", ":", "1", "}">>
TextPadded == <<"\n", "{", "}", " ">>
TextInProse == <<"a", " ", "{", "\"", "k", "\"", ":", "1", "}", " ", "a">>
TextTwoBlocks == <<"{", "}", " ", "a", " ", "{", "}">>

\* the provider's envelope around a text value
Envelope(text) ==
    JObj([candidates |-> JArr(<<
        JObj([content |-> JObj([parts |-> JArr(<< JObj([text |-> text]) >>)])]) >>)])

\* raw bodies (r.text)
BodyQuota         == "quota exceeded"
BodyHtml          == "<html>Bad Gateway</html>"
BodyNothing       == ""
BodyArray         == "[]"
BodyNoCandidates  == "{\"promptFeedback\": {}}"
BodyZeroCandidates == "{\"candidates\": []}"
BodyNoContent     == "{\"candidates\": [{\"finishReason\": \"SAFETY\"}]}"
BodyNoParts       == "{\"candidates\": [{\"content\": {\"role\": \"model\"}}]}"
BodyZeroParts     == "{\"candidates\": [{\"content\": {\"parts\": []}}]}"
BodyNoText        == "{\"candidates\": [{\"content\": {\"parts\": [{\"inlineData\": {}}]}}]}"
BodyTextEmpty     == "{\"candidates\": [{\"content\": {\"parts\": [{\"text\": \"\"}]}}]}"
BodyTextNull      == "{\"candidates\": [{\"content\": {\"parts\": [{\"text\": null}]}}]}"
BodyTextNumber    == "{\"candidates\": [{\"content\": {\"parts\": [{\"text\": 7}]}}]}"
BodyTextBlank     == "{\"candidates\": [{\"content\": {\"parts\": [{\"text\": \" \\n \"}]}}]}"
BodyTextProse     == "{\"candidates\": [{\"content\": {\"parts\": [{\"text\": \"a a\"}]}}]}"
BodyTextJson      == "{\"candidates\": [{\"content\": {\"parts\": [{\"text\": \"{\\\"k\\\":1}\"}]}}]}"
BodyTextPadded    == "{\"candidates\": [{\"content\": {\"parts\": [{\"text\": \"\\n{} \"}]}}]}"
BodyTextInProse   == "{\"candidates\": [{\"content\": {\"parts\": [{\"text\": \"a {\\\"k\\\":1} a\"}]}}]}"
BodyTextTwoBlocks == "{\"candidates\": [{\"content\": {\"parts\": [{\"text\": \"{} a {}\"}]}}]}"

\* bodies that are no JSON document
NonJsonBodies == {BodyQuota, BodyHtml, BodyNothing}

\* bodies that are a JSON document
JsonBodies ==
    {BodyArray, BodyNoCandidates, BodyZeroCandidates, BodyNoContent, BodyNoParts,
     BodyZeroParts, BodyNoText, BodyTextEmpty, BodyTextNull, BodyTextNumber,
     BodyTextBlank, BodyTextProse, BodyTextJson, BodyTextPadded, BodyTextInProse,
     BodyTextTwoBlocks}

Bodies == NonJsonBodies \cup JsonBodies

\* r.json() of a JSON body
json_of(b) ==
    CASE b = BodyArray          -> JArr(<<>>)
      [] b = BodyNoCandidates   -> JObj([promptFeedback |-> JObj(<<>>)])
      [] b = BodyZeroCandidates -> JObj([candidates |-> JArr(<<>>)])
      [] b = BodyNoContent      ->
            JObj([candidates |-> JArr(<< JObj([finishReason |-> JStr(<<"S","A","F","E","T","Y">>)]) >>)])
      [] b = BodyNoParts        ->
            JObj([candidates |-> JArr(<<
                JObj([content |-> JObj([role |-> JStr(<<"m","o","d","e","l">>)])]) >>)])
      [] b = BodyZeroParts      ->
            JObj([candidates |-> JArr(<< JObj([content |-> JObj([parts |-> JArr(<<>>)])]) >>)])
      [] b = BodyNoText         ->
            JObj([candidates |-> JArr(<<
                JObj([content |-> JObj([parts |-> JArr(<< JObj([inlineData |-> JObj(<<>>)]) >>)])]) >>)])
      [] b = BodyTextEmpty      -> Envelope(JStr(<<>>))
      [] b = BodyTextNull       -> Envelope(JNull)
      [] b = BodyTextNumber     -> Envelope(JNum(7))
      [] b = BodyTextBlank      -> Envelope(JStr(TextBlank))
      [] b = BodyTextProse      -> Envelope(JStr(TextProse))
      [] b = BodyTextJson       -> Envelope(JStr(TextJson))
      [] b = BodyTextPadded     -> Envelope(JStr(TextPadded))
      [] b = BodyTextInProse    -> Envelope(JStr(TextInProse))
      [] b = BodyTextTwoBlocks  -> Envelope(JStr(TextTwoBlocks))

\* HTTP statuses the provider answers with
Statuses == {200, 201, 204, 404, 429, 500}

Replies == {TransportFailure} \cup { HttpReply(st, b) : st \in Statuses, b \in Bodies }

---------------------------------------------------------------------------
(* Upstream client, from requests.post on.                                 *)

\* what call_gemini_text ends with: an exception, or the text it returns
CallRaised(e) == [exc |-> e, text |-> JAbsent]
CallReturned(x) == [exc |-> NoExc, text |-> x]
\* call_gemini_text was not called, or has not ended yet
NoOutcome == [exc |-> Exc("not_ended", "", ""), text |-> JAbsent]

\* a client that takes every 2xx status for a success
is_error_status_not2xx(st) == st < 200 \/ st > 299

\* if r.status_code != 200
is_error_status(st) == st # 200

\* data = r.json(): the exception it raises, NoExc when it returns
r_json_exc(r) ==
    IF r.body \in JsonBodies THEN NoExc
    ELSE Exc("JSONDecodeError", "call_gemini_text r.json()", "Expecting value")

\* text = ""; try: text = data["candidates"][0]["content"]["parts"][0]["text"]
\* except Exception: pass
envelope_text(data) ==
    LET x == GetKey(GetFirst(GetKey(GetKey(GetFirst(GetKey(data, "candidates")),
                                           "content"), "parts")), "text")
    IN  IF x.t = "absent" THEN JStr(<<>>) ELSE x

\* call_gemini_text after requests.post met r
after_post(r) ==
    IF r.kind = "transport_failure"
    THEN CallRaised(Exc("RuntimeError", "call_gemini_text transport", "Upstream request error"))
    ELSE IF is_error_status(r.status)
    THEN CallRaised(Exc("RuntimeError", "call_gemini_text status", r.body))
    ELSE IF r_json_exc(r).type # "none"
    THEN CallRaised(r_json_exc(r))
    ELSE LET text == envelope_text(json_of(r.body))
         IN  IF ~Truthy(text)
             THEN CallRaised(Exc("RuntimeError", "call_gemini_text empty", "Empty response from Gemini"))
             ELSE CallReturned(text)

---------------------------------------------------------------------------
(* Request handler.                                                        *)

Detail(prefix, msg) == [prefix |-> prefix, msg |-> msg]

NoResponse ==
    [status |-> 0, keys |-> {}, detail |-> Detail("", ""), traits |-> <<>>, plan_text |-> <<>>]

\* except ValueError: 400 / except RuntimeError: 502 / except Exception: 500
status_of(e) ==
    IF "ValueError" \in Bases(e.type) THEN 400
    ELSE IF "RuntimeError" \in Bases(e.type) THEN 502
    ELSE 500

\* jsonify({"detail": str(e)}), or f"Server error: {ex}" under except Exception
error_response(e) ==
    [status |-> status_of(e), keys |-> {"detail"},
     detail |-> Detail(IF status_of(e) = 500 THEN "Server error: " ELSE "", e.msg),
     traits |-> <<>>, plan_text |-> <<>>]

\* jsonify({"traits": traits, "plan_text": plan_text})
plan_response(traits, plan_text) ==
    [status |-> 200, keys |-> {"traits", "plan_text"}, detail |-> Detail("", ""),
     traits |-> traits, plan_text |-> plan_text]

\* plan_text = extract_first_json_block(plan_text): text.strip() of a value that
\* is no string raises
extract_step(text) ==
    IF text.t = "str" THEN extract_first_json_block(text.s)
    ELSE Raised("AttributeError")

\* generate_plan from the return of requests.post to the response, with the
\* traits derived before the call
finish(traits, r) ==
    LET o == after_post(r)
        x == extract_step(o.text)
    IN  IF o.exc.type # "none" THEN error_response(o.exc)
        ELSE IF x.exc # "none"
        THEN error_response(Exc(x.exc, "extract_first_json_block", "object has no attribute 'strip'"))
        ELSE plan_response(traits, x.ret)

\* no request is being served
HandlerIdle ==
    /\ api_key = ""
    /\ pc = "idle"
    /\ payload = <<>>
    /\ posts = 0
    /\ reply = NoReply
    /\ outcome = NoOutcome
    /\ resp = NoResponse

---------------------------------------------------------------------------
(* derive_traits as a loop.                                                *)

\* no call of derive_traits is under way
TraitsIdle ==
    /\ dt_genomics = <<>>
    /\ dt_i = 0
    /\ dt_traits = DefaultTraits
    /\ dt_pc = "idle"

\* no call of extract_first_json_block is under way
ExtractIdle ==
    /\ ex_text = <<>>
    /\ ex_pc = "idle"
    /\ ex_result = <<>>
    /\ ex_exc = "none"

InitTraits ==
    /\ dt_genomics \in SeqsUpTo(SampleVariants, MaxVariants)
    /\ dt_i = 0
    /\ dt_traits = DefaultTraits
    /\ dt_pc = "loop"
    /\ ExtractIdle
    /\ HandlerIdle

\* for v in genomics: ... (one iteration)
DeriveStep ==
    /\ dt_pc = "loop"
    /\ dt_i < Len(dt_genomics)
    /\ dt_i' = dt_i + 1
    /\ dt_traits' = LoopBody(dt_traits, dt_genomics[dt_i + 1])
    /\ UNCHANGED <<dt_genomics, dt_pc, extractVars, handlerVars>>

\* return traits
DeriveReturn ==
    /\ dt_pc = "loop"
    /\ dt_i = Len(dt_genomics)
    /\ dt_pc' = "returned"
    /\ UNCHANGED <<dt_genomics, dt_i, dt_traits, extractVars, handlerVars>>

\* replies the caller of derive_traits is run on
ServedReplies == {HttpReply(200, BodyTextInProse), TransportFailure}

\* the caller, generate_plan, from the return of derive_traits to the response
\* (an API key is configured): the post is made and met by a reply
DeriveServed ==
    /\ dt_pc = "returned"
    /\ dt_pc' = "served"
    /\ \E r \in ServedReplies :
          /\ reply' = r
          /\ outcome' = after_post(r)
          /\ resp' = finish(dt_traits, r)
    /\ posts' = posts + 1
    /\ pc' = "responded"
    /\ UNCHANGED <<dt_genomics, dt_i, dt_traits, extractVars, api_key, payload>>

NextTraits == DeriveStep \/ DeriveReturn \/ DeriveServed

SpecTraits == InitTraits /\ [][NextTraits]_vars

---------------------------------------------------------------------------
(* extract_first_json_block as a call.                                     *)

InitExtract ==
    /\ ex_text \in SampleTexts
    /\ ex_pc = "call"
    /\ ex_result = <<>>
    /\ ex_exc = "none"
    /\ TraitsIdle
    /\ HandlerIdle

\* the call: it returns a string, or an exception leaves it
ExtractCall ==
    /\ ex_pc = "call"
    /\ LET r == extract_first_json_block(ex_text)
       IN  /\ ex_pc' = IF r.exc = "none" THEN "returned" ELSE "raised"
           /\ ex_result' = r.ret
           /\ ex_exc' = r.exc
    /\ UNCHANGED <<ex_text, traitVars, handlerVars>>

NextExtract == ExtractCall

SpecExtract == InitExtract /\ [][NextExtract]_vars

---------------------------------------------------------------------------
(* Request bodies POST /generate-plan is run on.                           *)

Entry(g, rs, gt) == [gene |-> g, rsid |-> rs, genotype |-> gt]

\* genomics entries: two well-formed ones, three lacking a field, one whose gene
\* is a number
SampleEntries ==
    { Entry(JStr(<<"a","p","o","a","2">>), JStr(RS_5082), JStr(<<"A","/","A">>)),
      Entry(JStr(<<"X","Y","Z">>), JStr(RS_OTHER), JStr(GT_CT)),
      Entry(JAbsent, JStr(RS_5082), JStr(GT_AA)),
      Entry(JStr(G_APOA2), JAbsent, JStr(GT_AA)),
      Entry(JStr(G_APOA2), JStr(RS_5082), JAbsent),
      Entry(JNum(7), JStr(RS_5082), JStr(GT_AA)) }

RequiredFields == {"age", "sex", "height_cm", "weight_kg", "activity_level", "goal"}

\* request bodies, before the bound on faulty fields; an absent genomics key and
\* an empty genomics list are the same to payload.get("genomics", [])
AllPayloads ==
    [ age            : {JAbsent, JNum(34), JStr(<<"a","b","c">>), JNull},
      sex            : {JAbsent, JStr(<<"F">>)},
      height_cm      : {JAbsent, JNum(170), JStr(<<"t","a","l","l">>), JNull},
      weight_kg      : {JAbsent, JStr(<<"6","5",".","5">>), JStr(<<"6","5","k","g">>), JNull},
      activity_level : {JAbsent, JStr(<<"l","o","w">>)},
      goal           : {JAbsent, JStr(<<"f","i","t">>)},
      constraints    : {JAbsent, JStr(<<"g",","," ","d",","," ">>),
                        JArr(<<JStr(<<"g">>)>>), JArr(<<JNum(1)>>)},
      genomics       : SeqsUpTo(SampleEntries, MaxGenomics) ]

\* the required field k of p is absent or is rejected by its coercion
FieldFault(p, k) ==
    CASE k = "age" -> int_of(p, k).type # "none"
      [] k \in {"height_cm", "weight_kg"} -> float_of(p, k).type # "none"
      [] OTHER -> str_of(p, k).type # "none"

Payloads ==
    { p \in AllPayloads : Cardinality({k \in RequiredFields : FieldFault(p, k)}) <= MaxFaults }

---------------------------------------------------------------------------
(* POST /generate-plan.                                                    *)

Init ==
    /\ api_key \in {"", "test-key"}
    /\ pc = "idle"
    /\ payload = <<>>
    /\ posts = 0
    /\ reply = NoReply
    /\ outcome = NoOutcome
    /\ resp = NoResponse
    /\ TraitsIdle
    /\ ExtractIdle

\* generate_plan from request.get_json to requests.post: an exception ends the
\* request with an error response, or the post is made and the handler waits
GeneratePlanBegin ==
    /\ pc = "idle"
    /\ \E p \in Payloads :
          LET e == before_post(p, api_key)
          IN  /\ payload' = p
              /\ IF e.type # "none"
                 THEN /\ pc' = "responded"
                      /\ resp' = error_response(e)
                      /\ outcome' = IF e = key_check(api_key) THEN CallRaised(e) ELSE NoOutcome
                      /\ posts' = posts
                 ELSE /\ pc' = "awaiting"
                      /\ resp' = resp
                      /\ outcome' = outcome
                      /\ posts' = posts + 1
    /\ UNCHANGED <<api_key, reply, traitVars, extractVars>>

\* generate_plan from the end of requests.post to the response
GeneratePlanEnd ==
    /\ pc = "awaiting"
    /\ \E r \in Replies :
          /\ reply' = r
          /\ outcome' = after_post(r)
          /\ resp' = finish(request_traits(parse_plan_request(payload)), r)
    /\ pc' = "responded"
    /\ UNCHANGED <<api_key, payload, posts, traitVars, extractVars>>

\* the next request: nothing of the last one is kept
NextRequest ==
    /\ pc = "responded"
    /\ pc' = "idle"
    /\ payload' = <<>>
    /\ posts' = 0
    /\ reply' = NoReply
    /\ outcome' = NoOutcome
    /\ resp' = NoResponse
    /\ UNCHANGED <<api_key, traitVars, extractVars>>

Next == GeneratePlanBegin \/ GeneratePlanEnd \/ NextRequest

Spec == Init /\ [][Next]_vars

---------------------------------------------------------------------------
(* Properties of POST /generate-plan, checked under Spec.                  *)

\* a required field is not in the body
LacksRequiredField(p) == \E k \in RequiredFields : p[k].t = "absent"

\* a required field is in the body and int() or float() rejects it
FailsCoercion(p) ==
    \E k \in {"age", "height_cm", "weight_kg"} : p[k].t # "absent" /\ FieldFault(p, k)

\* a genomics entry has no gene, no rsid or no genotype
EntryLacksField(p) ==
    \E i \in 1..Len(p.genomics) : \E f \in VariantFields : p.genomics[i][f].t = "absent"

\* the request would reach the upstream call if an API key were configured
WellFormed(p) == before_post(p, "test-key").type = "none"

IsClientFault(p, key) ==
    \/ LacksRequiredField(p)
    \/ FailsCoercion(p)
    \/ EntryLacksField(p)
    \/ WellFormed(p) /\ key = ""

\* C1: every request that is a client fault - a required field missing, a
\* required field that fails int/float coercion, a genomics entry lacking gene,
\* rsid or genotype, or a well-formed request with no API key configured - is
\* answered 400 with a detail string, never 500 or 502.
C1_ClientFaultsAnswered400 ==
    (pc = "responded" /\ IsClientFault(payload, api_key))
        => (resp.status = 400 /\ resp.keys = {"detail"})

IsSuccessStatus(st) == st \in 200..299

\* candidates[0].content.parts[0].text of a JSON body, JAbsent when a segment
\* of the path is not there
TextAtPath(b) ==
    GetKey(GetFirst(GetKey(GetKey(GetFirst(GetKey(json_of(b), "candidates")),
                                  "content"), "parts")), "text")

\* the upstream call fails to deliver usable text
FailsToDeliver(r) ==
    \/ r.kind = "transport_failure"
    \/ /\ r.kind = "http"
       /\ \/ ~IsSuccessStatus(r.status)
          \/ r.body \in NonJsonBodies
          \/ r.body \in JsonBodies /\ TextAtPath(r.body).t = "absent"
          \/ r.body \in JsonBodies /\ TextAtPath(r.body) = JStr(<<>>)

\* C2: once the upstream call has been attempted, every way it can fail to
\* deliver usable text (transport failure, non-success status, a success status
\* whose body is no JSON envelope, an envelope without the text path, an empty
\* text) is answered 502, and no request is answered 400 after the attempt.
C2_UpstreamFailuresAnswered502 ==
    (pc = "responded" /\ posts > 0)
        => /\ resp.status # 400
           /\ FailsToDeliver(reply) => resp.status = 502

\* C3: a request makes exactly one POST to the upstream endpoint when it parses
\* and an API key is configured, and none otherwise; a failed attempt is not
\* followed by a second one.
C3_OnePostIffParsedAndKey ==
    /\ pc = "awaiting" => posts = 1
    /\ pc = "responded" =>
          posts = IF parse_plan_request_exc(payload).type = "none" /\ api_key # ""
                  THEN 1 ELSE 0

\* call_gemini_text ended with the error raised on the HTTP status, its message
\* the raw body of r
IsProtocolError(o, r) ==
    /\ o.exc.type = "RuntimeError"
    /\ o.exc.site = "call_gemini_text status"
    /\ o.exc.msg = r.body

\* C4 as stated: the upstream client fails with the protocol error carrying the
\* raw body exactly when the HTTP status is not a 2xx status; every 2xx status
\* goes on to envelope parsing.
C4_ProtocolErrorIffNot2xx ==
    (pc = "responded" /\ reply.kind = "http")
        => (IsProtocolError(outcome, reply) <=> ~IsSuccessStatus(reply.status))

\* C4 amended: the upstream client fails with the protocol error carrying the
\* raw body exactly when the HTTP status is not 200 (the other 2xx statuses
\* included), and that request is answered 502 with the raw body as detail;
\* status 200 alone goes on to envelope parsing.
C4_ProtocolErrorIffNot200 ==
    (pc = "responded" /\ reply.kind = "http")
        => /\ IsProtocolError(outcome, reply) <=> reply.status # 200
           /\ reply.status # 200 =>
                 (resp.status = 502 /\ resp.detail = Detail("", reply.body))
           /\ reply.status = 200 =>
                 outcome.exc.site \in {"", "call_gemini_text r.json()", "call_gemini_text empty"}

\* C4 witness: status 500 with body "quota exceeded" was answered 502 with that body
C4_Witness ==
    /\ pc = "responded"
    /\ reply = HttpReply(500, BodyQuota)
    /\ IsProtocolError(outcome, reply)
    /\ resp.detail.msg = "quota exceeded"

\* C5: whenever call_gemini_text returns a text, the request is answered 200 and
\* plan_text is present and a non-empty string, whatever the text (white space
\* only, prose without JSON).
C5_PlanTextNonEmpty ==
    (pc = "responded" /\ outcome.exc.type = "none" /\ outcome.text.t = "str")
        => /\ resp.status = 200
           /\ "plan_text" \in resp.keys
           /\ resp.plan_text # <<>>

---------------------------------------------------------------------------
(* Properties of extract_first_json_block, checked under SpecExtract.      *)

SetMin(S) == CHOOSE x \in S : \A y \in S : x <= y
SetMax(S) == CHOOSE x \in S : \A y \in S : x >= y

\* the text from its first to its last character that is no white space
Trim(text) ==
    LET keep == {i \in 1..Len(text) : ~IsSpace(text[i])}
    IN  IF keep = {} THEN <<>> ELSE SubSeq(text, SetMin(keep), SetMax(keep))

Opens(t) == {i \in 1..Len(t) : t[i] = "{"}
Closes(t) == {i \in 1..Len(t) : t[i] = "}"}

\* t has a first '{' and a last '}' after it
HasSpan(t) == Opens(t) # {} /\ Closes(t) # {} /\ SetMax(Closes(t)) > SetMin(Opens(t))

\* t from its first '{' to its last '}'
Span(t) == SubSeq(t, SetMin(Opens(t)), SetMax(Closes(t)))

IsBraced(t) == t # <<>> /\ t[1] = "{" /\ t[Len(t)] = "}"

IsSubstring(x, t) == \E i \in 1..(Len(t) + 1) : \E j \in 0..Len(t) : x = SubSeq(t, i, j)

\* C6: extract_first_json_block never raises and returns trim(t) if trim(t)
\* starts with '{' and ends with '}'; otherwise trim(t) from its first '{' to its
\* last '}' if both exist, the last follows the first and that substring parses
\* as JSON; otherwise trim(t). So the result is trim(t) or a substring of it
\* that begins with '{' and ends with '}'.
C6_ExtractCases ==
    ex_pc # "call" =>
        LET t == Trim(ex_text)
        IN  /\ ex_pc = "returned"
            /\ ex_exc = "none"
            /\ ex_result =
                  IF IsBraced(t) THEN t
                  ELSE IF HasSpan(t) /\ JsonParses(Span(t)) THEN Span(t)
                  ELSE t
            /\ \/ ex_result = t
               \/ IsSubstring(ex_result, t) /\ IsBraced(ex_result)

\* C6 witness: a padded text whose trimmed form is braced yet no JSON came back trimmed
C6_Witness ==
    /\ ex_pc = "returned"
    /\ ex_text = <<" ", "{", "a", "}", " ">>
    /\ ex_result = <<"{", "a", "}">>

\* the substrings of t that begin with '{', end with '}' and parse as JSON
JsonBlocks(t) ==
    {b \in (1..Len(t)) \X (1..Len(t)) :
        b[1] < b[2] /\ t[b[1]] = "{" /\ t[b[2]] = "}" /\ JsonParses(SubSeq(t, b[1], b[2]))}

\* the one of them that starts first
FirstJsonBlock(t) ==
    LET b == CHOOSE b \in JsonBlocks(t) : \A c \in JsonBlocks(t) : b[1] <= c[1]
    IN  SubSeq(t, b[1], b[2])

\* C7 as stated: for a text that holds a balanced {...} substring that parses
\* as JSON the extractor returns the first such substring (the first of two
\* objects in prose); only without one does it return the text (trimmed).
C7_ReturnsFirstJsonBlock ==
    ex_pc = "returned" =>
        ex_result = IF JsonBlocks(ex_text) # {} THEN FirstJsonBlock(ex_text)
                    ELSE Trim(ex_text)

\* C7 amended: the extractor returns the trimmed text from its first '{' to its
\* last '}' when that span parses as JSON, and the trimmed text otherwise; it
\* returns the first {...} substring that parses exactly when that substring is
\* this span, so for prose holding two separate objects it returns the trimmed
\* text whole.
C7_ReturnsOuterSpan ==
    ex_pc = "returned" =>
        LET t == Trim(ex_text)
        IN  /\ ex_result = IF HasSpan(t) /\ JsonParses(Span(t)) THEN Span(t) ELSE t
            /\ JsonBlocks(t) # {} =>
                  (ex_result = FirstJsonBlock(t) <=> (HasSpan(t) /\ FirstJsonBlock(t) = Span(t)))

\* C7 witness: one object after prose came back alone
C7_Witness ==
    /\ ex_pc = "returned"
    /\ ex_text = <<"a", "{", "\"", "k", "\"", ":", "1", "}">>
    /\ ex_result = <<"{", "\"", "k", "\"", ":", "1", "}">>

---------------------------------------------------------------------------
(* Properties of derive_traits, checked under SpecTraits.                  *)

\* the variants of the list
Members(g) == {g[i] : i \in 1..Len(g)}

\* the genotype with '/' removed, upper-cased
PlainGenotype(v) == upper(remove_char(v.genotype, "/"))

\* the APOA2 rule as the claim words it: gene and rsid compared
\* case-insensitively, genotype AA after removing '/' and upper-casing
StatedAPOA2(v) ==
    upper(v.gene) = G_APOA2 /\ lower(v.rsid) = RS_5082 /\ PlainGenotype(v) = GT_AA

\* the MTHFR rule as the claim words it
StatedMTHFR(v) ==
    /\ upper(v.gene) = G_MTHFR
    /\ lower(v.rsid) = RS_1801133
    /\ (contains(PlainGenotype(v), GT_TT) \/ contains(PlainGenotype(v), GT_CT))

\* the same, surrounding white space of each field ignored
TrimmedAPOA2(v) ==
    /\ upper(Trim(v.gene)) = G_APOA2
    /\ lower(Trim(v.rsid)) = RS_5082
    /\ Trim(PlainGenotype(v)) = GT_AA

TrimmedMTHFR(v) ==
    /\ upper(Trim(v.gene)) = G_MTHFR
    /\ lower(Trim(v.rsid)) = RS_1801133
    /\ (contains(Trim(PlainGenotype(v)), GT_TT) \/ contains(Trim(PlainGenotype(v)), GT_CT))

\* C8 as stated: fat_sensitivity is "higher" iff some variant has gene APOA2 and
\* rsid rs5082 compared case-insensitively and genotype AA after removing '/'
\* and upper-casing, else "neutral"; methylation_support is "elevated" iff some
\* variant has gene MTHFR, rsid rs1801133 and a normalized genotype containing
\* TT or CT, else "standard".
C8_RulesAsStated ==
    dt_pc # "loop" =>
        /\ dt_traits["fat_sensitivity"] =
              IF \E v \in Members(dt_genomics) : StatedAPOA2(v) THEN "higher" ELSE "neutral"
        /\ dt_traits["methylation_support"] =
              IF \E v \in Members(dt_genomics) : StatedMTHFR(v) THEN "elevated" ELSE "standard"

\* C8 amended: the same two rules, with gene, rsid and the normalized genotype
\* each compared after also removing surrounding white space (a gene " APOA2"
\* matches).
C8_RulesIgnoringSpace ==
    dt_pc # "loop" =>
        /\ dt_traits["fat_sensitivity"] =
              IF \E v \in Members(dt_genomics) : TrimmedAPOA2(v) THEN "higher" ELSE "neutral"
        /\ dt_traits["methylation_support"] =
              IF \E v \in Members(dt_genomics) : TrimmedMTHFR(v) THEN "elevated" ELSE "standard"

\* C8 witness: "a/a" matched, and a later "AC" left the trait as it was
C8_Witness ==
    /\ dt_pc = "returned"
    /\ Len(dt_genomics) = 2
    /\ dt_genomics[1].genotype = <<"a", "/", "a">>
    /\ dt_genomics[2].genotype = <<"A", "C">>
    /\ dt_traits["fat_sensitivity"] = "higher"

\* a variant some rule other than the FTO rule acts on
ActsOn(v) ==
    \/ upper(Trim(v.gene)) \in {G_TCF7L2, G_LCT, G_CYP1A2}
    \/ TrimmedAPOA2(v)
    \/ TrimmedMTHFR(v)

\* C9: for every list of variants the TraitMap of derive_traits, and the traits
\* field of every 200 response, has exactly the five keys, and holds the
\* defaults when no variant matches.
C9_FiveKeys ==
    /\ DOMAIN dt_traits = TraitKeys
    /\ (dt_pc # "loop" /\ \A v \in Members(dt_genomics) : ~ActsOn(v))
          => dt_traits = DefaultTraits
    /\ resp.status = 200 =>
          /\ "traits" \in resp.keys
          /\ DOMAIN resp.traits = TraitKeys
          /\ resp.traits = dt_traits

\* C9 witness: a 200 response for a list with a duplicate and an unknown gene
C9_Witness ==
    /\ dt_pc = "served"
    /\ resp.status = 200
    /\ Len(dt_genomics) = 3
    /\ dt_genomics[1] = dt_genomics[2]
    /\ dt_genomics[1].gene = G_LCT
    /\ dt_genomics[3].gene = <<"X", "Y", "Z">>
    /\ resp.traits["lactose_tolerance"] = "lower"

IsFTO(v) == upper(Trim(v.gene)) = G_FTO
IsTCF7L2(v) == upper(Trim(v.gene)) = G_TCF7L2

\* C10: the FTO rule is a no-op: carb_tolerance is never empty at any point of
\* the loop, the result equals that for the list without its FTO variants, and
\* carb_tolerance is "lower" iff some variant has gene TCF7L2 (an FTO variant
\* after it does not reset it to "moderate").
C10_FTONoOp ==
    /\ dt_traits["carb_tolerance"] # ""
    /\ dt_pc # "loop" =>
          /\ dt_traits = derive_traits(SelectSeq(dt_genomics, LAMBDA v : ~IsFTO(v)))
          /\ dt_traits["carb_tolerance"] =
                IF \E v \in Members(dt_genomics) : IsTCF7L2(v) THEN "lower" ELSE "moderate"

\* C10 witness: an FTO variant after a TCF7L2 variant, carb_tolerance still "lower"
C10_Witness ==
    /\ dt_pc = "returned"
    /\ Len(dt_genomics) = 2
    /\ IsTCF7L2(dt_genomics[1])
    /\ IsFTO(dt_genomics[2])
    /\ dt_traits["carb_tolerance"] = "lower"

=============================================================================
